---- MODULE Spec2Model ----
(***************************************************************************)
(* Model of the calendar's interval predicates, the day/week overlap       *)
(* layout, the 15-minute drag snap, the drag-and-drop state machine        *)
(* (CalendarDndProvider), the month cell's visible count and the root      *)
(* component's dialogs, click-to-create and keyboard shortcuts.            *)
(*                                                                         *)
(* A JavaScript Date is modelled as a naive local timestamp                *)
(* [day |-> d, ms |-> m]: d is the number of days since 2024-01-01 and m   *)
(* the milliseconds since local midnight (0 .. MsPerDay-1).  The pair is   *)
(* ordered lexicographically, which is the order of getTime().             *)
(***************************************************************************)
EXTENDS Integers, Sequences, FiniteSets, TLC

VARIABLES
    \* ---- CalendarDndProvider: React state (part_009:135-154) ----
    activeEvent, activeId, activeView, currentTime, eventHeight,
    isMultiDay, multiDayWidth, dragHandlePosition, eventDimensions,
    \* ---- @dnd-kit transport: the draggable being dragged, if any ----
    dragging, active,
    \* ---- observation of the handlers' effects ----
    updates,            \* events passed to onEventUpdate since the last pick-up
    lastOp,             \* record of the last transport event and what its handler did
    \* ---- pure functions under test: input and result ----
    fnIn, fnOut,
    \* ---- EventCalendar: useState (part_017:48) and useEventHandlers
    \*      (use-event-handlers.ts:19-23) ----
    currentView,        \* the state `view` of EventCalendar
    isEventDialogOpen, selectedEvent, isChoiceDialogOpen, isAISuggestionOpen,
    selectedDateTime,
    \* ---- /api/ai-suggestions: module state of the route (part_000:49) ----
    rateLimitStore,     \* Map<string, number[]>: a function from the keys set to
                        \* the times of their counted requests
    dateNow,            \* the value Date.now() returns
    allowedTimes,       \* per ip, the times of the last calls answered true
    rateAnswer,         \* the last call of checkRateLimit and its answer
    \* ---- Home: useLocalStorage("calendar-events") (part_005:14, part_021:63) ----
    storedValue,        \* the state as of the last render, closed over by setValue
    queuedValue,        \* the state handed to setStoredValue, not yet rendered
    localStorageItem,   \* the item "calendar-events" of localStorage
    requestedEvents,    \* the rendered list after the change of every callback
                        \* invoked since, in call order
    turnCalls           \* callbacks invoked since the last render

dndVars == <<activeEvent, activeId, activeView, currentTime, eventHeight,
             isMultiDay, multiDayWidth, dragHandlePosition, eventDimensions,
             dragging, active, updates, lastOp>>
fnVars == <<fnIn, fnOut>>
uiVars == <<currentView, isEventDialogOpen, selectedEvent, isChoiceDialogOpen,
            isAISuggestionOpen, selectedDateTime>>
apiVars == <<rateLimitStore, dateNow, allowedTimes, rateAnswer>>
pageVars == <<storedValue, queuedValue, localStorageItem, requestedEvents, turnCalls>>
hostVars == <<apiVars, pageVars>>
vars == <<activeEvent, activeId, activeView, currentTime, eventHeight,
          isMultiDay, multiDayWidth, dragHandlePosition, eventDimensions,
          dragging, active, updates, lastOp, fnIn, fnOut,
          currentView, isEventDialogOpen, selectedEvent, isChoiceDialogOpen,
          isAISuggestionOpen, selectedDateTime,
          rateLimitStore, dateNow, allowedTimes, rateAnswer,
          storedValue, queuedValue, localStorageItem, requestedEvents, turnCalls>>

\* every optional value is a record, so that null and undefined compare with it
Null == [null |-> TRUE]
Undefined == [undefined |-> TRUE]
Falsy(v) == v \in {Null, Undefined}
Range(f) == { f[i] : i \in DOMAIN f }
\* a number that may be null or undefined
Num(n) == [num |-> n]

-----------------------------------------------------------------------------
(* Bounds of the model *)

\* an hour fraction is a whole number of ticks; TicksPerMinute ticks make a minute
TicksPerMinute == 2
\* number of distinct hours a drop target may carry (BaseHour .. BaseHour+MaxDropHours-1)
MaxDropHours == 1
\* number of consecutive days that carry drop targets
MaxDropDays == 2
\* number of events laid out on one day
MaxEvents == 3
\* first hour that carries drop targets and sample events
BaseHour == 9

\* number of hours whose fractions the snap is applied to (0 .. MaxSnapHours-1)
MaxSnapHours == 3
\* the layout's events start and end on half-hour slots 0 .. MaxSlot after BaseHour
MaxSlot == 2
\* an event given to isMultiDayEvent ends 0 .. MaxSpanDays days after it starts,
\* or one month after
MaxSpanDays == 1

\* container heights given to useEventVisibility, in px (0 .. MaxHeight)
MaxHeight == 140
\* number of events of one month cell (0 .. MaxTotal)
MaxTotal == 6
\* reference dates of the navigation: MaxNavDays days from 2024-03-01 on
MaxNavDays == 100
\* length of the stored event list (0 .. MaxStored)
MaxStored == 2
\* callbacks of the page invoked before React renders again
MaxTurnCalls == 2

(* Program constants *)
WeekCellsHeight == 72
StartHour == 0
EndHour == 24
DefaultStartHour == 9
DefaultEndHour == 10
EventHeight == 24
EventGap == 4
AgendaDaysToShow == 30

-----------------------------------------------------------------------------
(* JavaScript Date and date-fns *)

MsPerMinute == 60 * 1000
MsPerHour == 60 * 60 * 1000
MsPerDay == 24 * 60 * 60 * 1000
MinutesPerDay == 24 * 60

\* new Date(y, m, d, h, mi, s, ms) for a day number
Dt(day, h, mi, s, ms) ==
    [day |-> day, ms |-> h * MsPerHour + mi * MsPerMinute + s * 1000 + ms]

\* a.getTime() < b.getTime()
Before(a, b) == a.day < b.day \/ (a.day = b.day /\ a.ms < b.ms)

IsLeapYear(y) == (y % 4 = 0 /\ y % 100 # 0) \/ y % 400 = 0

\* days of month m (0-based, as getMonth) of year y
DaysInMonth(y, m) ==
    IF m = 1 THEN (IF IsLeapYear(y) THEN 29 ELSE 28)
    ELSE IF m \in {3, 5, 8, 10} THEN 30 ELSE 31

RECURSIVE CivilFrom(_, _, _)
CivilFrom(y, m, d) ==
    IF d < DaysInMonth(y, m)
    THEN [year |-> y, month |-> m, date |-> d + 1]
    ELSE CivilFrom(IF m = 11 THEN y + 1 ELSE y, (m + 1) % 12, d - DaysInMonth(y, m))

\* the civil date of a day number; day 0 is 2024-01-01
Civil(day) == CivilFrom(2024, 0, day)

getFullYear(t) == Civil(t.day).year
getMonth(t) == Civil(t.day).month
getDate(t) == Civil(t.day).date
getHours(t) == t.ms \div MsPerHour
getMinutes(t) == (t.ms % MsPerHour) \div MsPerMinute
getSeconds(t) == (t.ms % MsPerMinute) \div 1000
getMilliseconds(t) == t.ms % 1000

\* Date.prototype.setHours(h, mi, s, ms): fields past their range carry
setHours(t, h, mi, s, ms) ==
    LET total == h * MsPerHour + mi * MsPerMinute + s * 1000 + ms
    IN  [day |-> t.day + (total \div MsPerDay), ms |-> total % MsPerDay]

\* date-fns startOfDay, isSameDay, addHours, addMinutes
startOfDay(t) == [day |-> t.day, ms |-> 0]
isSameDay(a, b) == a.day = b.day
addMinutes(t, n) ==
    LET total == (t.ms \div MsPerMinute) + n
    IN  [day |-> t.day + (total \div MinutesPerDay),
         ms |-> (total % MinutesPerDay) * MsPerMinute + (t.ms % MsPerMinute)]
addHours(t, n) == addMinutes(t, n * 60)

\* date-fns differenceInMinutes(a, b): (a - b) / 60000 truncated toward zero
differenceInMinutes(a, b) ==
    LET dd == a.day - b.day
        dms == a.ms - b.ms
    IN  IF ~Before(a, b)
        THEN dd * MinutesPerDay + (dms \div MsPerMinute)
        ELSE dd * MinutesPerDay - ((0 - dms) \div MsPerMinute)

\* a - b as a whole number of days and a rest of 0 .. MsPerDay-1 milliseconds:
\* two differences are equal as milliseconds iff these pairs are equal
Elapsed(a, b) ==
    LET dms == a.ms - b.ms
    IN  [days |-> (a.day - b.day) + (dms \div MsPerDay), ms |-> dms % MsPerDay]

-----------------------------------------------------------------------------
(* The 15-minute snap of handleDragOver and handleDragEnd.  An hour         *)
(* fraction `time` is the rational time/TimeDen; hours = Math.floor(time), *)
(* fractionalHour = time - hours = (time % TimeDen)/TimeDen.               *)

TimeDen == 60 * TicksPerMinute

SnapHours(time) == time \div TimeDen

\* SnapMinutes with a fault: the second threshold is 0.25 in place of 0.375
SnapMinutes_threshold(time) ==
    LET num == time % TimeDen
    IN  IF 8 * num < TimeDen THEN 0
        ELSE IF 4 * num < TimeDen THEN 15
        ELSE IF 8 * num < 5 * TimeDen THEN 30
        ELSE 45

SnapMinutes(time) ==
    LET num == time % TimeDen      \* fractionalHour = num / TimeDen
    IN  IF 8 * num < TimeDen THEN 0              \* fractionalHour < 0.125
        ELSE IF 8 * num < 3 * TimeDen THEN 15    \* fractionalHour < 0.375
        ELSE IF 8 * num < 5 * TimeDen THEN 30    \* fractionalHour < 0.625
        ELSE 45

-----------------------------------------------------------------------------
(* Invalid Date: new Date(undefined), and every Date derived from it *)

InvalidDate == [invalid |-> TRUE]
IsInvalid(t) == t = InvalidDate

\* new Date(date) of a drop target's `date`, which may be missing
NewDate(date) == IF date = Undefined THEN InvalidDate ELSE date

\* t.setHours(src.getHours(), src.getMinutes(), src.getSeconds(), src.getMilliseconds())
setHoursFrom(t, src) ==
    IF IsInvalid(t) \/ IsInvalid(src) THEN InvalidDate
    ELSE setHours(t, getHours(src), getMinutes(src), getSeconds(src), getMilliseconds(src))

\* t.setHours(hours, minutes, 0, 0) with the snapped hour fraction
setHoursSnapped(t, time) ==
    IF IsInvalid(t) THEN InvalidDate
    ELSE setHours(t, SnapHours(time), SnapMinutes(time), 0, 0)

\* NaN !== NaN: two Dates agree on a getter only when both are valid
SameYMD(a, b) ==
    /\ ~IsInvalid(a) /\ ~IsInvalid(b)
    /\ getFullYear(a) = getFullYear(b)
    /\ getMonth(a) = getMonth(b)
    /\ getDate(a) = getDate(b)

SameYMDHM(a, b) ==
    /\ SameYMD(a, b)
    /\ getHours(a) = getHours(b)
    /\ getMinutes(a) = getMinutes(b)

addMinutesTo(t, n) == IF IsInvalid(t) THEN InvalidDate ELSE addMinutes(t, n)

-----------------------------------------------------------------------------
(* Events and drag payloads *)

Event(id, start, end, allDay) ==
    [id |-> id, start |-> start, end |-> end, allDay |-> allDay]

\* 2024-01-05: the day the sample events start on
EventDay == 4

\* the events a calendar may show: a one-hour meeting, an all-day event as
\* EventDialog.handleSave stores it, an instant, and a meeting with seconds
SampleEvents ==
    { Event("meet", Dt(EventDay, BaseHour, 0, 0, 0), Dt(EventDay, BaseHour + 1, 0, 0, 0), FALSE),
      Event("allday", Dt(EventDay, 0, 0, 0, 0), Dt(EventDay, 23, 59, 59, 999), TRUE),
      Event("instant", Dt(EventDay, BaseHour, 30, 0, 0), Dt(EventDay, BaseHour, 30, 0, 0), FALSE),
      Event("late", Dt(EventDay, 23, 15, 20, 0), Dt(EventDay + 1, 0, 45, 50, 500), FALSE) }

Views == {"month", "week", "day"}
NoView == "null"

\* date-fns differenceInDays(end, start) >= 1 for end >= start: at least 24 hours apart
AtLeastOneDay(start, end) ==
    end.day - start.day > 1 \/ (end.day - start.day = 1 /\ end.ms >= start.ms)

\* the data DraggableEvent hands to useDraggable; measured says whether the
\* element's height, width hint and press position were available
DragData(e, view, measured) ==
    [event |-> e,
     view |-> view,
     height |-> IF measured THEN Num(48) ELSE Null,
     isMultiDay |-> (e.allDay \/ AtLeastOneDay(e.start, e.end)),
     multiDayWidth |-> IF measured THEN Num(50) ELSE Undefined,
     dragHandlePosition |-> IF measured THEN [x |-> 3, y |-> 4] ELSE Null]

DragId(e, view) == [event |-> e.id, view |-> view]

\* the draggables of the page: active.id and active.data.current
Actives ==
    { [id |-> DragId(e, v), data |-> DragData(e, v, m)] :
        e \in SampleEvents, v \in Views, m \in BOOLEAN }
    \cup { [id |-> DragId(e, "week"), data |-> Undefined] : e \in SampleEvents }

DropDays == { EventDay + i : i \in 0 .. MaxDropDays - 1 }
\* hour fractions at every five minutes: the ten-minute cells of the day and week
\* views, and the fractions between them
DropTimes ==
    { h * TimeDen + k * 5 * TicksPerMinute :
        h \in BaseHour .. BaseHour + MaxDropHours - 1, k \in 0 .. 11 }

\* what DroppableCell hands to useDroppable: { date, time? }
CellData ==
    { [date |-> Dt(d, 0, 0, 0, 0), time |-> t] :
        d \in DropDays, t \in { Num(n) : n \in DropTimes } \cup {Undefined} }

\* over: null (no target), a target without data, a target whose data has no date,
\* or a DroppableCell
Overs ==
    {Null, [data |-> Undefined]}
    \cup { [data |-> [date |-> Undefined, time |-> t]] : t \in {Undefined, Num(BaseHour * TimeDen)} }
    \cup { [data |-> c] : c \in CellData }

\* active.data.current as handleDragEnd may read it: as at pick-up, gone, or
\* without its event
EndData(a) ==
    IF a = Null THEN {}
    ELSE {a.data, Undefined}
         \cup (IF a.data = Undefined THEN {} ELSE { [a.data EXCEPT !.event = Undefined] })

-----------------------------------------------------------------------------
(* CalendarDndProvider *)

IdleOp == [op |-> "none"]

DndInit ==
    /\ activeEvent = Null
    /\ activeId = Null
    /\ activeView = NoView
    /\ currentTime = Null
    /\ eventHeight = Null
    /\ isMultiDay = FALSE
    /\ multiDayWidth = Null
    /\ dragHandlePosition = Null
    /\ eventDimensions = [height |-> 0]
    /\ dragging = FALSE
    /\ active = Null
    /\ updates = <<>>
    /\ lastOp = IdleOp

\* EventCalendar as mounted: initialView defaults to "month", every dialog closed
UiInit ==
    /\ currentView = "month"
    /\ isEventDialogOpen = FALSE
    /\ selectedEvent = Null
    /\ isChoiceDialogOpen = FALSE
    /\ isAISuggestionOpen = FALSE
    /\ selectedDateTime = Null

\* the clients of the route: the key POST derives from the request headers, the
\* first entry of x-forwarded-for, else x-real-ip, else the shared key 'unknown'
ClientIps == {"203.0.113.7", "unknown"}

\* the route's module as loaded: an empty Map; no request has been answered
ApiInit ==
    /\ rateLimitStore = [ip \in {} |-> <<>>]
    /\ dateNow = 0
    /\ allowedTimes = [ip \in ClientIps |-> <<>>]
    /\ rateAnswer = Null

sampleEvents == <<>>

\* Home on a first visit: localStorage.getItem returns null, so useState starts
\* from initialValue
PageInit ==
    /\ localStorageItem = Null
    /\ storedValue = sampleEvents
    /\ queuedValue = Null
    /\ requestedEvents = sampleEvents
    /\ turnCalls = 0

HostInit == ApiInit /\ PageInit

\* ResetSession with a fault: the reset forgets setEventHeight(null)
ResetSession_keepsHeight ==
    /\ activeEvent' = Null
    /\ activeId' = Null
    /\ activeView' = NoView
    /\ currentTime' = Null
    /\ UNCHANGED eventHeight
    /\ isMultiDay' = FALSE
    /\ multiDayWidth' = Null
    /\ dragHandlePosition' = Null

\* the eight setters of the reset in handleDragEnd
ResetSession ==
    /\ activeEvent' = Null
    /\ activeId' = Null
    /\ activeView' = NoView
    /\ currentTime' = Null
    /\ eventHeight' = Null
    /\ isMultiDay' = FALSE
    /\ multiDayWidth' = Null
    /\ dragHandlePosition' = Null

\* v ?? d
OrElse(v, d) == IF Falsy(v) THEN d ELSE v

\* onDragStart
handleDragStart(a) ==
    /\ ~dragging
    /\ dragging' = TRUE
    /\ active' = a
    /\ updates' = <<>>
    /\ lastOp' = [op |-> "start", hadData |-> a.data # Undefined]
    /\ IF a.data = Undefined
       THEN UNCHANGED <<activeEvent, activeId, activeView, currentTime, eventHeight,
                        isMultiDay, multiDayWidth, dragHandlePosition, eventDimensions>>
       ELSE /\ activeEvent' = a.data.event
            /\ activeId' = a.id
            /\ activeView' = a.data.view
            /\ currentTime' = a.data.event.start
            /\ isMultiDay' = a.data.isMultiDay
            /\ multiDayWidth' = OrElse(a.data.multiDayWidth, Null)
            /\ dragHandlePosition' = OrElse(a.data.dragHandlePosition, Null)
            /\ IF Falsy(a.data.height)
               THEN UNCHANGED <<eventHeight, eventDimensions>>
               ELSE /\ eventDimensions' = [height |-> a.data.height.num]
                    /\ eventHeight' = a.data.height

\* the value handleDragOver gives currentTime
HoverTime(over, view, ct) ==
    LET date == over.data.date
        time == over.data.time
    IN  IF time # Undefined /\ view # "month"
        THEN LET newTime == setHoursSnapped(NewDate(date), time.num)
             IN  IF Falsy(ct) \/ IsInvalid(newTime) \/ IsInvalid(ct)
                    \/ newTime # setHours(ct, getHours(ct), getMinutes(ct), 0, 0)
                 THEN newTime ELSE ct
        ELSE IF view = "month"
        THEN LET newTime == IF Falsy(ct) THEN NewDate(date)
                            ELSE setHoursFrom(NewDate(date), ct)
             IN  IF Falsy(ct) \/ ~SameYMD(newTime, ct) THEN newTime ELSE ct
        ELSE ct

\* handleDragOver with a fault: activeEvent is not checked
handleDragOver_idleTracks(over) ==
    /\ dragging
    /\ lastOp' = [op |-> "over"]
    /\ currentTime' =
          IF over # Null /\ over.data # Undefined
          THEN HoverTime(over, activeView, currentTime)
          ELSE currentTime
    /\ UNCHANGED <<activeEvent, activeId, activeView, eventHeight, isMultiDay,
                   multiDayWidth, dragHandlePosition, eventDimensions,
                   dragging, active, updates>>

\* onDragOver
handleDragOver(over) ==
    /\ dragging
    /\ lastOp' = [op |-> "over"]
    /\ currentTime' =
          IF over # Null /\ ~Falsy(activeEvent) /\ over.data # Undefined
          THEN HoverTime(over, activeView, currentTime)
          ELSE currentTime
    /\ UNCHANGED <<activeEvent, activeId, activeView, eventHeight, isMultiDay,
                   multiDayWidth, dragHandlePosition, eventDimensions,
                   dragging, active, updates>>

\* the start handleDragEnd resolves from the drop target
DropStart(odata, ct) ==
    IF odata.time # Undefined
    THEN setHoursSnapped(NewDate(odata.date), odata.time.num)
    ELSE setHoursFrom(NewDate(odata.date), ct)

\* the end handleDragEnd computes: the original duration in whole minutes
DropEnd(calendarEvent, newStart) ==
    addMinutesTo(newStart, differenceInMinutes(calendarEvent.end, calendarEvent.start))

\* hasStartTimeChanged with a fault: only the time of day is compared
hasStartTimeChanged_timeOnly(originalStart, newStart) ==
    \/ IsInvalid(newStart)
    \/ getHours(originalStart) # getHours(newStart)
    \/ getMinutes(originalStart) # getMinutes(newStart)

hasStartTimeChanged(originalStart, newStart) == ~SameYMDHM(originalStart, newStart)

\* DropTry with a fault: overData.date is not validated
DropTry_dateUnchecked(adata, over, ct) ==
    IF adata = Undefined \/ over.data = Undefined
    THEN [threw |-> TRUE, calls |-> <<>>, newStart |-> Null]
    ELSE IF Falsy(adata.event)
    THEN [threw |-> TRUE, calls |-> <<>>, newStart |-> Null]
    ELSE LET calendarEvent == adata.event
             newStart == DropStart(over.data, ct)
             newEnd == DropEnd(calendarEvent, newStart)
         IN  [threw |-> FALSE,
              calls |-> IF hasStartTimeChanged(calendarEvent.start, newStart)
                        THEN << [calendarEvent EXCEPT !.start = newStart, !.end = newEnd] >>
                        ELSE <<>>,
              newStart |-> newStart]

\* the try block of handleDragEnd: whether it threw, and the calls of onEventUpdate
DropTry(adata, over, ct) ==
    IF adata = Undefined \/ over.data = Undefined
    THEN [threw |-> TRUE, calls |-> <<>>, newStart |-> Null]
    ELSE IF Falsy(adata.event) \/ Falsy(over.data.date)
    THEN [threw |-> TRUE, calls |-> <<>>, newStart |-> Null]
    ELSE LET calendarEvent == adata.event
             newStart == DropStart(over.data, ct)
             newEnd == DropEnd(calendarEvent, newStart)
         IN  [threw |-> FALSE,
              calls |-> IF hasStartTimeChanged(calendarEvent.start, newStart)
                        THEN << [calendarEvent EXCEPT !.start = newStart, !.end = newEnd] >>
                        ELSE <<>>,
              newStart |-> newStart]

\* onDragEnd
handleDragEnd(adata, over) ==
    /\ dragging
    /\ dragging' = FALSE
    /\ active' = Null
    /\ UNCHANGED eventDimensions
    /\ IF over = Null \/ Falsy(activeEvent) \/ Falsy(currentTime)
       THEN /\ ResetSession
            /\ UNCHANGED updates
            /\ lastOp' = [op |-> "end", path |-> "early", adata |-> adata, over |-> over,
                          subject |-> activeEvent, calls |-> <<>>, newStart |-> Null,
                          escaped |-> FALSE]
       ELSE LET r == DropTry(adata, over, currentTime)
            IN  /\ updates' = updates \o r.calls
                \* catch logs the error; finally resets
                /\ ResetSession
                /\ lastOp' = [op |-> "end", path |-> IF r.threw THEN "caught" ELSE "try",
                              adata |-> adata, over |-> over, subject |-> activeEvent,
                              calls |-> r.calls, newStart |-> r.newStart,
                              escaped |-> FALSE]

\* a pointercancel, touchcancel, Escape, resize or visibilitychange ends the
\* gesture through @dnd-kit's onDragCancel; DndContext is given onDragStart,
\* onDragOver and onDragEnd only, so no handler of the provider runs
dragCancel ==
    /\ dragging
    /\ dragging' = FALSE
    /\ active' = Null
    /\ lastOp' = [op |-> "cancel"]
    /\ UNCHANGED <<activeEvent, activeId, activeView, currentTime, eventHeight,
                   isMultiDay, multiDayWidth, dragHandlePosition, eventDimensions,
                   updates>>

DndNext ==
    \/ \E a \in Actives : handleDragStart(a) /\ UNCHANGED <<fnVars, uiVars, hostVars>>
    \/ \E over \in Overs : handleDragOver(over) /\ UNCHANGED <<fnVars, uiVars, hostVars>>
    \/ \E over \in Overs : \E adata \in EndData(active) :
          handleDragEnd(adata, over) /\ UNCHANGED <<fnVars, uiVars, hostVars>>
    \/ dragCancel /\ UNCHANGED <<fnVars, uiVars, hostVars>>

InitDnd == DndInit /\ UiInit /\ HostInit /\ fnIn = Null /\ fnOut = Null

SpecDnd == InitDnd /\ [][DndNext]_vars

-----------------------------------------------------------------------------
(* Interval predicates (utils) *)

isMultiDayEvent(event) ==
    event.allDay \/ getDate(event.start) # getDate(event.end)

\* areIntervalsOverlapping with a fault: the right interval must start inside the left
areIntervalsOverlapping_startInside(leftStart, leftEnd, rightStart, rightEnd) ==
    Before(leftStart, rightStart) /\ Before(rightStart, leftEnd)

\* areIntervalsOverlapping with a fault: || in place of &&
areIntervalsOverlapping_or(leftStart, leftEnd, rightStart, rightEnd) ==
    Before(leftStart, rightEnd) \/ Before(rightStart, leftEnd)

\* date-fns areIntervalsOverlapping(left, right), inclusive: false
areIntervalsOverlapping(leftStart, leftEnd, rightStart, rightEnd) ==
    LET ls == IF Before(leftEnd, leftStart) THEN leftEnd ELSE leftStart
        le == IF Before(leftEnd, leftStart) THEN leftStart ELSE leftEnd
        rs == IF Before(rightEnd, rightStart) THEN rightEnd ELSE rightStart
        re == IF Before(rightEnd, rightStart) THEN rightStart ELSE rightEnd
    IN  Before(ls, re) /\ Before(rs, le)

-----------------------------------------------------------------------------
(* The snap as a function from hour fraction to hour fraction *)

\* the hour fraction of the time setHours(hours, minutes, 0, 0) sets
SnapToGrid(time) == SnapHours(time) * TimeDen + SnapMinutes(time) * TicksPerMinute

-----------------------------------------------------------------------------
(* Day and week view: layout of the timed events of one day *)

\* Array.prototype.filter
RECURSIVE SelectSeqFrom(_, _, _)
SelectSeqFrom(seq, keep, i) ==
    IF i > Len(seq) THEN <<>>
    ELSE (IF seq[i] \in keep THEN <<seq[i]>> ELSE <<>>) \o SelectSeqFrom(seq, keep, i + 1)
Filter(seq, keep) == SelectSeqFrom(seq, keep, 1)

\* the comparators: "start" is a.start - b.start, "layout" is start, then the
\* longer duration first
Compare(by, a, b) ==
    IF Before(a.start, b.start) THEN -1
    ELSE IF Before(b.start, a.start) THEN 1
    ELSE IF by = "start" THEN 0
    ELSE differenceInMinutes(b.end, b.start) - differenceInMinutes(a.end, a.start)

\* Array.prototype.sort is stable: x goes behind every element that does not
\* compare greater than it
RECURSIVE InsertStable(_, _, _)
InsertStable(by, sorted, x) ==
    IF sorted = <<>> THEN <<x>>
    ELSE IF Compare(by, sorted[Len(sorted)], x) <= 0 THEN Append(sorted, x)
    ELSE Append(InsertStable(by, SubSeq(sorted, 1, Len(sorted) - 1), x), sorted[Len(sorted)])

RECURSIVE SortFrom(_, _, _, _)
SortFrom(by, seq, i, sorted) ==
    IF i > Len(seq) THEN sorted
    ELSE SortFrom(by, seq, i + 1, InsertStable(by, sorted, seq[i]))
Sort(by, seq) == SortFrom(by, seq, 1, <<>>)

\* isSameDay(day, start) || isSameDay(day, end) || (start < day && day < end)
OnDay(event, day) ==
    \/ isSameDay(day, event.start)
    \/ isSameDay(day, event.end)
    \/ (Before(event.start, day) /\ Before(day, event.end))

adjustedStart(event, day) ==
    IF isSameDay(day, event.start) THEN event.start ELSE startOfDay(day)
adjustedEnd(event, day) ==
    IF isSameDay(day, event.end) THEN event.end ELSE addHours(startOfDay(day), 24)

\* col.some(c => areIntervalsOverlapping(adjusted, c.event))
ColumnOverlaps(col, aStart, aEnd) ==
    \E k \in 1 .. Len(col) :
        areIntervalsOverlapping(aStart, aEnd, col[k].event.start, col[k].event.end)

\* the while loop: the first column, from columnIndex on, that is empty or holds
\* no overlapping event (columns[columnIndex] is columns[columnIndex + 1] here)
RECURSIVE FindColumn(_, _, _, _)
FindColumn(columns, columnIndex, aStart, aEnd) ==
    IF columnIndex + 1 > Len(columns) THEN columnIndex
    ELSE IF ~ColumnOverlaps(columns[columnIndex + 1], aStart, aEnd) THEN columnIndex
    ELSE FindColumn(columns, columnIndex + 1, aStart, aEnd)

\* one PositionedEvent; top and height are in sixtieths of a pixel and left
\* and width in tenths, so that they stay whole numbers
Positioned(event, day, columnIndex) ==
    LET aStart == adjustedStart(event, day)
        aEnd == adjustedEnd(event, day)
        startMinutes == getHours(aStart) * 60 + getMinutes(aStart)
        endMinutes == getHours(aEnd) * 60 + getMinutes(aEnd)
    IN  [event |-> event,
         top |-> (startMinutes - StartHour * 60) * WeekCellsHeight,
         height |-> (endMinutes - startMinutes) * WeekCellsHeight,
         left |-> IF columnIndex = 0 THEN 0 ELSE columnIndex,
         width |-> IF columnIndex = 0 THEN 10 ELSE 9,
         zIndex |-> 10 + columnIndex,
         column |-> columnIndex]

\* sortedEvents.forEach: place the events from the i-th on
RECURSIVE PlaceFrom(_, _, _, _, _)
PlaceFrom(sortedEvents, day, i, columns, result) ==
    IF i > Len(sortedEvents) THEN result
    ELSE LET event == sortedEvents[i]
             aStart == adjustedStart(event, day)
             aEnd == adjustedEnd(event, day)
             columnIndex == FindColumn(columns, 0, aStart, aEnd)
             entry == [event |-> event, end |-> aEnd]
             columns2 == IF columnIndex + 1 > Len(columns)
                         THEN Append(columns, <<entry>>)
                         ELSE [columns EXCEPT ![columnIndex + 1] = Append(@, entry)]
         IN  PlaceFrom(sortedEvents, day, i + 1, columns2,
                       Append(result, Positioned(event, day, columnIndex)))

\* DayView: dayEvents, timeEvents and positionedEvents for currentDate
DayViewLayout(events, currentDate) ==
    LET dayEvents == Sort("start", Filter(events, { e \in Range(events) : OnDay(e, currentDate) }))
        timeEvents == Filter(dayEvents, { e \in Range(dayEvents) : ~e.allDay /\ ~isMultiDayEvent(e) })
    IN  PlaceFrom(Sort("layout", timeEvents), currentDate, 1, <<>>, <<>>)

\* WeekView: processedDayEvents for one day of the week
WeekViewLayout(events, day) ==
    LET dayEvents == Filter(events, { e \in Range(events) :
                                        ~(e.allDay \/ isMultiDayEvent(e)) /\ OnDay(e, day) })
    IN  PlaceFrom(Sort("layout", dayEvents), day, 1, <<>>, <<>>)

-----------------------------------------------------------------------------
(* Properties of the drag-and-drop state machine, checked under SpecDnd *)

\* Idle: no session field is set
SessionIdle ==
    /\ activeEvent = Null
    /\ activeId = Null
    /\ activeView = NoView
    /\ currentTime = Null
    /\ eventHeight = Null
    /\ multiDayWidth = Null
    /\ dragHandlePosition = Null
    /\ isMultiDay = FALSE

Dropped == lastOp.op = "end"
\* the drop passed every validation and resolved a new start
ValidDrop == Dropped /\ lastOp.path = "try"
Emitted == Dropped /\ lastOp.calls # <<>>

\* the drop had no target, or its source or target payload was missing
MalformedDrop ==
    /\ Dropped
    /\ \/ lastOp.over = Null
       \/ lastOp.adata = Undefined
       \/ (lastOp.over # Null /\ lastOp.over.data = Undefined)
       \/ (lastOp.adata # Undefined /\ lastOp.adata.event = Undefined)
       \/ (lastOp.over # Null /\ lastOp.over.data # Undefined
           /\ lastOp.over.data.date = Undefined)

\* C2: every update a drop emits keeps the subject event's duration to the
\* millisecond: newEnd - newStart = originalEnd - originalStart.
C2_DurationExact ==
    Emitted =>
        LET e == lastOp.calls[1]
            orig == lastOp.adata.event
        IN  /\ ~IsInvalid(e.start) /\ ~IsInvalid(e.end)
            /\ Elapsed(e.end, e.start) = Elapsed(orig.end, orig.start)

\* C3: a valid drop whose resolved start has the year, month, day, hour and
\* minute of the subject's original start calls onEventUpdate zero times; any
\* other valid drop calls it exactly once, with the resolved start.
C3_NoOpMoveEmitsNothing ==
    ValidDrop =>
        LET orig == lastOp.adata.event.start
            new == lastOp.newStart
            same == /\ ~IsInvalid(new)
                    /\ Civil(orig.day) = Civil(new.day)
                    /\ orig.ms \div MsPerMinute = new.ms \div MsPerMinute
        IN  /\ updates = lastOp.calls
            /\ IF same THEN Len(updates) = 0
               ELSE Len(updates) = 1 /\ updates[1].start = new

\* C3 witness: a week/day drop onto the subject's own minute, nothing emitted
C3_Witness ==
    /\ ValidDrop
    /\ lastOp.over.data.time # Undefined
    /\ lastOp.calls = <<>>

\* C4: after handleDragEnd the session is Idle, whatever the drop did.
C4_IdleAfterDragEnd == Dropped => SessionIdle

\* C4 witness: a drop that emitted an update after a pick-up that had set the
\* overlay height
C4_Witness == Emitted /\ lastOp.adata.height # Null /\ SessionIdle

\* C5: a drop without target, or with a missing source or target payload,
\* calls onEventUpdate not at all and lets no exception escape the handler.
C5_MalformedDropIsCancel ==
    MalformedDrop => lastOp.calls = <<>> /\ updates = <<>> /\ ~lastOp.escaped

\* C5 witness: a drop of a live session on a target whose data has no date
C5_Witness ==
    /\ MalformedDrop
    /\ lastOp.path = "caught"
    /\ lastOp.over.data # Undefined
    /\ lastOp.adata # Undefined
    /\ lastOp.adata.event # Undefined

\* C6: every event that ends a gesture, a drop or a cancel of the transport,
\* leaves the session Idle.
C6_EveryEndingClearsSession == lastOp.op \in {"end", "cancel"} => SessionIdle

\* a drop of a week- or day-view drag on a cell that carries an hour fraction,
\* which emitted an update
TimedDropEmitted ==
    /\ Emitted
    /\ lastOp.adata.view \in {"week", "day"}
    /\ lastOp.over.data.time # Undefined

\* C24: across any sequence of pick-up, hover and drop events, onEventUpdate is
\* invoked only by a drop and at most once per pick-up; pick-up and hover never
\* invoke it, and a hover or drop that arrives while no session is active
\* leaves the session fields at their idle values and emits nothing.
C24_OnlyDropEmitsAtMostOnce ==
    [][/\ lastOp'.op = "start" => updates' = <<>>
       /\ lastOp'.op = "over" => updates' = updates
       /\ lastOp'.op = "end" =>
             /\ updates' = updates \o lastOp'.calls
             /\ Len(updates') <= 1
       /\ (SessionIdle /\ lastOp'.op \in {"over", "end"}) =>
             /\ SessionIdle'
             /\ updates' = updates
             /\ UNCHANGED eventDimensions]_vars

\* a drop on a cell has arrived while no session was active
C24_Witness ==
    /\ Dropped
    /\ lastOp.subject = Null
    /\ lastOp.over # Null /\ lastOp.over.data # Undefined
    /\ SessionIdle
    /\ updates = <<>>

\* C13: a week/day drop on {date, hourFraction} emits the subject event with
\* start = that date at the snapped hour and minute (0, 15, 30 or 45; seconds
\* and milliseconds 0), end = start + the subject's duration, and its other
\* fields unchanged.
C13_TimedDropEmitsSnappedStart ==
    TimedDropEmitted =>
        LET e == lastOp.calls[1]
            orig == lastOp.adata.event
            date == lastOp.over.data.date
            time == lastOp.over.data.time.num
        IN  /\ e.start = Dt(date.day, SnapHours(time), SnapMinutes(time), 0, 0)
            /\ getMinutes(e.start) \in {0, 15, 30, 45}
            /\ ~IsInvalid(e.end)
            /\ Elapsed(e.end, e.start) = Elapsed(orig.end, orig.start)
            /\ e.id = orig.id
            /\ e.allDay = orig.allDay
            /\ DOMAIN e = DOMAIN orig

\* the session is active and its provisional time is a valid Date
LiveSession == ~Falsy(activeEvent) /\ ~Falsy(currentTime) /\ ~IsInvalid(currentTime)

\* a hover target whose payload carries a date
DatedOver(over) == over # Null /\ over.data # Undefined /\ over.data.date # Undefined

\* C14: a hover of an active session, of whatever origin view, over a target
\* without hour fraction, or of a month-view session over any target, gives
\* currentTime the target's date and leaves its time of day unchanged.
C14_HoverTakesDateKeepsTime ==
    [][\A over \in Overs :
          (/\ handleDragOver(over)
           /\ LiveSession
           /\ DatedOver(over)
           /\ (over.data.time = Undefined \/ activeView = "month"))
          => (/\ ~IsInvalid(currentTime')
              /\ currentTime'.day = over.data.date.day
              /\ currentTime'.ms = currentTime.ms)]_vars

\* C15: the start a valid drop resolves is the one the hover rule yields for
\* the session's origin view and the drop target's payload, applied to the
\* subject as it was picked up; so it depends on the payload and the subject
\* alone, never on the targets hovered before.
C15_CommitEqualsHoverRule ==
    ValidDrop =>
        lastOp.newStart = HoverTime(lastOp.over, lastOp.adata.view, lastOp.subject.start)

-----------------------------------------------------------------------------
(* useEventVisibility *)

\* !contentHeight: the state is null before the first measurement; a measured
\* clientHeight of 0 is falsy as well
NotContentHeight(contentHeight) == contentHeight = Null \/ contentHeight.num = 0

\* rowHeight is the option eventHeight of the hook
getVisibleEventCount(contentHeight, rowHeight, eventGap, totalEvents) ==
    IF NotContentHeight(contentHeight) THEN totalEvents
    ELSE LET slot == rowHeight + eventGap IN
         IF slot <= 0 THEN totalEvents
         ELSE LET maxEvents == contentHeight.num \div slot IN
              IF totalEvents <= maxEvents THEN totalEvents
              ELSE IF maxEvents > 0 THEN maxEvents - 1 ELSE 0

-----------------------------------------------------------------------------
(* Month view: the events of one cell (utils) *)

getEventsForDay(events, day) ==
    Sort("start", Filter(events, { e \in Range(events) : isSameDay(day, e.start) }))

getSpanningEventsForDay(events, day) ==
    Filter(events, { e \in Range(events) :
                       /\ isMultiDayEvent(e)
                       /\ ~isSameDay(day, e.start)
                       /\ (isSameDay(day, e.end) \/ (Before(e.start, day) /\ Before(day, e.end))) })

getAllEventsForDay(events, day) == Filter(events, { e \in Range(events) : OnDay(e, day) })

-----------------------------------------------------------------------------
(* useNavigation: previous and next *)

\* the days of year y before its month m (0-based)
RECURSIVE DaysBeforeMonth(_, _)
DaysBeforeMonth(y, m) ==
    IF m = 0 THEN 0 ELSE DaysBeforeMonth(y, m - 1) + DaysInMonth(y, m - 1)

\* the days from 2024-01-01 to the first day of year y, for y >= 2024
RECURSIVE DaysBeforeYear(_)
DaysBeforeYear(y) ==
    IF y <= 2024 THEN 0
    ELSE DaysBeforeYear(y - 1) + (IF IsLeapYear(y - 1) THEN 366 ELSE 365)

\* the day number of a civil date: the inverse of Civil
DayNumber(y, m, d) == DaysBeforeYear(y) + DaysBeforeMonth(y, m) + d - 1

\* date-fns addDays and addWeeks: the local time of day is kept
addDays(t, n) == [day |-> t.day + n, ms |-> t.ms]
addWeeks(t, n) == addDays(t, n * 7)

\* date-fns addMonths: the day of the month is kept unless the target month is
\* shorter, and then the last day of the target month is taken
addMonths(t, n) ==
    LET c == Civil(t.day)
        months == c.year * 12 + c.month + n
        y == months \div 12
        m == months % 12
        d == IF c.date < DaysInMonth(y, m) THEN c.date ELSE DaysInMonth(y, m)
    IN  [day |-> DayNumber(y, m, d), ms |-> t.ms]
subMonths(t, n) == addMonths(t, 0 - n)
subWeeks(t, n) == addWeeks(t, 0 - n)

\* the date handlePrevious and handleNext pass to setCurrentDate
handlePrevious(calendarView, currentDate) ==
    CASE calendarView = "month" -> subMonths(currentDate, 1)
      [] calendarView = "week" -> subWeeks(currentDate, 1)
      [] calendarView = "day" -> addDays(currentDate, -1)
      [] calendarView = "agenda" -> addDays(currentDate, 0 - AgendaDaysToShow)

handleNext(calendarView, currentDate) ==
    CASE calendarView = "month" -> addMonths(currentDate, 1)
      [] calendarView = "week" -> addWeeks(currentDate, 1)
      [] calendarView = "day" -> addDays(currentDate, 1)
      [] calendarView = "agenda" -> addDays(currentDate, AgendaDaysToShow)

-----------------------------------------------------------------------------
(* The pure functions, applied to inputs drawn from bounded sets *)

\* 2024-03-01, the first reference date of the navigation
FirstNavDay == DayNumber(2024, 2, 1)

\* a view, a reference date at 13:05, and which of the two buttons is pressed
\* first
NavigationInputs ==
    { [fn |-> "navigate", view |-> v, date |-> Dt(FirstNavDay + i, 13, 5, 0, 0), first |-> f] :
        v \in {"month", "week", "day", "agenda"}, i \in 0 .. MaxNavDays - 1,
        f \in {"next", "previous"} }

SnapInputs == { [fn |-> "snap", time |-> t] : t \in 0 .. MaxSnapHours * TimeDen - 1 }

\* the day one month after EventDay, with the same day of the month
NextMonthDay == EventDay + DaysInMonth(2024, 0)

MultiDayInputs ==
    { [fn |-> "isMultiDayEvent", event |-> Event("e", Dt(EventDay, h1, 0, 0, 0), Dt(d2, h2, 0, 0, 0), ad)] :
        h1 \in {0, BaseHour, 23}, h2 \in {0, BaseHour, 23},
        d2 \in (EventDay .. EventDay + MaxSpanDays) \cup {NextMonthDay},
        ad \in BOOLEAN }

SlotTime(day, i) == addMinutes(Dt(day, BaseHour, 0, 0, 0), 30 * i)

\* the timed events of EventDay on the half-hour slots, one event that ends a
\* month later on the same day of the month, and one that lasts thirty seconds
\* more than the first slot
LayoutEvents ==
    { Event(0, SlotTime(EventDay, i), SlotTime(EventDay, j), FALSE) :
        i \in 0 .. MaxSlot, j \in 0 .. MaxSlot }
    \cup { Event(0, SlotTime(EventDay, 1), SlotTime(NextMonthDay, 1), FALSE) }
    \cup { Event(0, SlotTime(EventDay, 0),
                  [SlotTime(EventDay, 1) EXCEPT !.ms = @ + 30 * 1000], FALSE) }

RECURSIVE SeqsUpTo(_, _)
SeqsUpTo(S, n) ==
    IF n = 0 THEN {<<>>}
    ELSE SeqsUpTo(S, n - 1)
         \cup { Append(q, x) : q \in { p \in SeqsUpTo(S, n - 1) : Len(p) = n - 1 }, x \in S }

\* the events prop: every list of up to MaxEvents events with end >= start, each
\* event with an id of its own
EventLists ==
    { [k \in 1 .. Len(q) |-> [q[k] EXCEPT !.id = k]] :
        q \in SeqsUpTo({ e \in LayoutEvents : ~Before(e.end, e.start) }, MaxEvents) }

LayoutInputs ==
    { [fn |-> "DayView", events |-> es, day |-> Dt(EventDay, 13, 5, 0, 0)] : es \in EventLists }
    \cup { [fn |-> "WeekView", events |-> es, day |-> Dt(EventDay, 0, 0, 0, 0)] : es \in EventLists }

\* the hook's options and state: the month view's row of EventHeight + EventGap,
\* a row of 30 + 4, and rows whose slot is zero or negative; the container is
\* unmeasured (null) or measured at 0 .. MaxHeight px
VisibilityInputs ==
    { [fn |-> "getVisibleEventCount", contentHeight |-> h, eventHeight |-> r,
       eventGap |-> g, totalEvents |-> n] :
        h \in {Null} \cup { Num(k) : k \in 0 .. MaxHeight },
        r \in {0, EventHeight, 30}, g \in {-1, 0, EventGap}, n \in 0 .. MaxTotal }

\* events as a month grid meets them: a meeting, an hour across midnight, an
\* all-day event, an event over MaxSpanDays + 1 days, and one that ends a month
\* later on the same day of the month
MonthCellEvents ==
    { Event(0, Dt(EventDay, BaseHour, 0, 0, 0), Dt(EventDay, BaseHour + 1, 0, 0, 0), FALSE),
      Event(0, Dt(EventDay, 23, 0, 0, 0), Dt(EventDay + 1, 1, 0, 0, 0), FALSE),
      Event(0, Dt(EventDay, 0, 0, 0, 0), Dt(EventDay, 23, 59, 59, 999), TRUE),
      Event(0, Dt(EventDay - 1, BaseHour, 0, 0, 0),
               Dt(EventDay + MaxSpanDays, BaseHour, 0, 0, 0), FALSE),
      Event(0, Dt(EventDay, BaseHour, 0, 0, 0), Dt(NextMonthDay, BaseHour, 0, 0, 0), FALSE) }

\* the events prop of the month view, up to two events with ids of their own,
\* and a day of the grid as eachDayOfInterval gives it
MonthCellInputs ==
    { [fn |-> "monthCell", events |-> [k \in 1 .. Len(q) |-> [q[k] EXCEPT !.id = k]],
       day |-> Dt(d, 0, 0, 0, 0)] :
        q \in SeqsUpTo(MonthCellEvents, 2),
        d \in (EventDay - 1 .. EventDay + MaxSpanDays + 1) \cup {NextMonthDay} }

InitFn ==
    /\ DndInit
    /\ UiInit
    /\ HostInit
    /\ fnIn \in SnapInputs \cup MultiDayInputs \cup LayoutInputs \cup VisibilityInputs
                \cup NavigationInputs \cup MonthCellInputs
    /\ fnOut = Null

ApplySnap ==
    /\ fnOut = Null /\ fnIn.fn = "snap"
    /\ fnOut' = [once |-> SnapToGrid(fnIn.time), twice |-> SnapToGrid(SnapToGrid(fnIn.time))]
    /\ UNCHANGED <<fnIn, dndVars, uiVars, hostVars>>

\* the views' classification of the event, and the flag DraggableEvent puts
\* in the drag payload of the same event when no isMultiDay prop is passed
ApplyIsMultiDayEvent ==
    /\ fnOut = Null /\ fnIn.fn = "isMultiDayEvent"
    /\ fnOut' = [value |-> isMultiDayEvent(fnIn.event),
                 payload |-> DragData(fnIn.event, "week", FALSE).isMultiDay]
    /\ UNCHANGED <<fnIn, dndVars, uiVars, hostVars>>

ApplyDayViewLayout ==
    /\ fnOut = Null /\ fnIn.fn = "DayView"
    /\ fnOut' = [positioned |-> DayViewLayout(fnIn.events, fnIn.day)]
    /\ UNCHANGED <<fnIn, dndVars, uiVars, hostVars>>

ApplyWeekViewLayout ==
    /\ fnOut = Null /\ fnIn.fn = "WeekView"
    /\ fnOut' = [positioned |-> WeekViewLayout(fnIn.events, fnIn.day)]
    /\ UNCHANGED <<fnIn, dndVars, uiVars, hostVars>>

\* the count at the measured height, and the counts the same hook gave at
\* every smaller measured height
ApplyGetVisibleEventCount ==
    /\ fnOut = Null /\ fnIn.fn = "getVisibleEventCount"
    /\ fnOut' =
         [value |-> getVisibleEventCount(fnIn.contentHeight, fnIn.eventHeight,
                                         fnIn.eventGap, fnIn.totalEvents),
          shorter |-> IF fnIn.contentHeight = Null THEN <<>>
                      ELSE [k \in 1 .. fnIn.contentHeight.num |->
                              getVisibleEventCount(Num(k - 1), fnIn.eventHeight,
                                                   fnIn.eventGap, fnIn.totalEvents)]]
    /\ UNCHANGED <<fnIn, dndVars, uiVars, hostVars>>

\* one button, a render, and then the other button
ApplyNavigation ==
    /\ fnOut = Null /\ fnIn.fn = "navigate"
    /\ fnOut' =
         [value |-> IF fnIn.first = "next"
                    THEN handlePrevious(fnIn.view, handleNext(fnIn.view, fnIn.date))
                    ELSE handleNext(fnIn.view, handlePrevious(fnIn.view, fnIn.date))]
    /\ UNCHANGED <<fnIn, dndVars, uiVars, hostVars>>

\* MonthView, one cell: allDayEvents = [...spanningEvents, ...dayEvents] is
\* laid out, allEvents is listed in the popover
ApplyMonthCell ==
    /\ fnOut = Null /\ fnIn.fn = "monthCell"
    /\ fnOut' = [allDayEvents |-> getSpanningEventsForDay(fnIn.events, fnIn.day)
                                    \o getEventsForDay(fnIn.events, fnIn.day),
                 allEvents |-> getAllEventsForDay(fnIn.events, fnIn.day)]
    /\ UNCHANGED <<fnIn, dndVars, uiVars, hostVars>>

NextFn ==
    \/ ApplySnap \/ ApplyIsMultiDayEvent \/ ApplyDayViewLayout \/ ApplyWeekViewLayout
    \/ ApplyGetVisibleEventCount \/ ApplyNavigation \/ ApplyMonthCell

SpecFn == InitFn /\ [][NextFn]_vars

-----------------------------------------------------------------------------
(* Properties of the pure functions, checked under SpecFn *)

LaidOut == fnOut # Null /\ fnIn.fn \in {"DayView", "WeekView"}

\* the day-clamped interval of the i-th positioned event
ClampedStart(i) == adjustedStart(fnOut.positioned[i].event, fnIn.day)
ClampedEnd(i) == adjustedEnd(fnOut.positioned[i].event, fnIn.day)

\* the closed intervals of the i-th and j-th positioned events intersect
Touch(i, j) ==
    ~Before(ClampedEnd(i), ClampedStart(j)) /\ ~Before(ClampedEnd(j), ClampedStart(i))

\* they share more than one instant, or one is an instant strictly inside the other
ProperOverlap(i, j) ==
    Before(ClampedStart(i), ClampedEnd(j)) /\ Before(ClampedStart(j), ClampedEnd(i))

RECURSIVE LowestFreeColumn(_, _)
LowestFreeColumn(i, c) ==
    IF \E j \in 1 .. i - 1 : fnOut.positioned[j].column = c /\ ProperOverlap(i, j)
    THEN LowestFreeColumn(i, c + 1)
    ELSE c

\* C21: the layout processes a day's timed events in ascending start order with
\* equal starts ordered longer-duration-first, and places each event in the
\* lowest-index column none of whose occupants overlaps it, opening a new
\* column at the next index only when every existing column has an overlapping
\* occupant.
C21_SortedAndLowestFreeColumn ==
    LaidOut =>
        /\ \A i, j \in 1 .. Len(fnOut.positioned) :
              i < j =>
                 LET a == fnOut.positioned[i].event
                     b == fnOut.positioned[j].event
                 IN  /\ ~Before(b.start, a.start)
                     /\ a.start = b.start => ~Before(a.end, b.end)
        /\ \A i \in 1 .. Len(fnOut.positioned) :
              fnOut.positioned[i].column = LowestFreeColumn(i, 0)

\* C27: for every event, the multi-day flag that DraggableEvent puts in the
\* drag payload when no isMultiDay prop is passed (allDay, or
\* differenceInDays(end, start) >= 1) equals isMultiDayEvent(event) as used by
\* the views to classify the same event.
C27_PayloadFlagEqualsClassification ==
    (/\ fnOut # Null /\ fnIn.fn = "isMultiDayEvent"
     /\ ~Before(fnIn.event.end, fnIn.event.start))
        => fnOut.payload = fnOut.value

\* C28: for every view (month, week, day, agenda) and every reference date,
\* handleNext followed by handlePrevious, and handlePrevious followed by
\* handleNext, returns the reference date to its original calendar day.
C28_NextPreviousRoundTrip ==
    (fnOut # Null /\ fnIn.fn = "navigate") => fnOut.value.day = fnIn.date.day

\* C29: for every event list and every day, the set of events a month cell lays
\* out (getSpanningEventsForDay together with getEventsForDay) equals the set
\* listed in that cell's "+N more" popover (getAllEventsForDay), and no event
\* appears twice in the cell.
C29_CellEventsEqualPopoverEvents ==
    (fnOut # Null /\ fnIn.fn = "monthCell") =>
        /\ Range(fnOut.allDayEvents) = Range(fnOut.allEvents)
        /\ \A i, j \in 1 .. Len(fnOut.allDayEvents) :
              i # j => fnOut.allDayEvents[i] # fnOut.allDayEvents[j]

\* C22: a zero-duration timed event (end equal to start) is laid out with a
\* height of at least a positive minimum render height, never 0.
C22_InstantHasPositiveHeight ==
    LaidOut =>
        \A i \in 1 .. Len(fnOut.positioned) :
            fnOut.positioned[i].event.end = fnOut.positioned[i].event.start
                => fnOut.positioned[i].height > 0

\* C25: every positioned event of the day-view and week-view layout has
\* height >= 0, its day-clamped end hour being not before its day-clamped
\* start hour, also when the event passes the timed-event filter but ends on a
\* later day and is clamped to the end of the laid-out day.
C25_HeightNotNegative ==
    LaidOut =>
        \A i \in 1 .. Len(fnOut.positioned) : fnOut.positioned[i].height >= 0

\* C26: for every positioned event and any number of overlap columns,
\* left + width <= 1 (here in tenths): the rectangle stays inside its day column.
C26_RectangleInsideDayColumn ==
    LaidOut =>
        \A i \in 1 .. Len(fnOut.positioned) :
            fnOut.positioned[i].left + fnOut.positioned[i].width <= 10

C7_MultiDayIffDifferentDay ==
    (fnOut # Null /\ fnIn.fn = "isMultiDayEvent") =>
        (fnOut.value <=> (fnIn.event.allDay
                          \/ Civil(fnIn.event.start.day) # Civil(fnIn.event.end.day)))

\* C8: when the closed intervals of the laid-out events are pairwise disjoint,
\* every event is in column 0, at left 0 with the full width.
C8_DisjointEventsInColumnZero ==
    (LaidOut /\ \A i, j \in 1 .. Len(fnOut.positioned) : i # j => ~Touch(i, j)) =>
        \A i \in 1 .. Len(fnOut.positioned) :
            /\ fnOut.positioned[i].column = 0
            /\ fnOut.positioned[i].left = 0
            /\ fnOut.positioned[i].width = 10

\* C8 witness: three pairwise disjoint events laid out
C8_Witness ==
    /\ LaidOut
    /\ Len(fnOut.positioned) = 3
    /\ \A i, j \in 1 .. 3 : i # j => ~Touch(i, j)

Snapped == fnOut # Null /\ fnIn.fn = "snap"
\* the minutes an hour fraction stands for are 0, 15, 30 or 45
OnGrid(time) == (time % TimeDen) \in { 0, 15 * TicksPerMinute, 30 * TicksPerMinute, 45 * TicksPerMinute }

\* C9: the snap of a snapped time is that time; a time at minute 0, 15, 30 or
\* 45 is its own snap.
C9_SnapIdempotent ==
    Snapped =>
        /\ fnOut.twice = fnOut.once
        /\ OnGrid(fnOut.once)
        /\ OnGrid(fnIn.time) => fnOut.once = fnIn.time

\* C9 witness: the snap applied to a quarter to the hour
C9_Witness == Snapped /\ fnIn.time % TimeDen = 45 * TicksPerMinute

\* C10: the snapped time is within 7.5 minutes of the raw time.
C10_SnapToNearest ==
    Snapped =>
        /\ 2 * (fnOut.once - fnIn.time) <= 15 * TicksPerMinute
        /\ 2 * (fnIn.time - fnOut.once) <= 15 * TicksPerMinute

-----------------------------------------------------------------------------
(* Strings: String.prototype.trim, padStart(2, "0"), split(":"), Number *)

RECURSIVE TrimStart(_)
TrimStart(str) ==
    IF Len(str) > 0 /\ SubSeq(str, 1, 1) = " " THEN TrimStart(SubSeq(str, 2, Len(str)))
    ELSE str

RECURSIVE TrimEnd(_)
TrimEnd(str) ==
    IF Len(str) > 0 /\ SubSeq(str, Len(str), Len(str)) = " "
    THEN TrimEnd(SubSeq(str, 1, Len(str) - 1))
    ELSE str

Trim(str) == TrimEnd(TrimStart(str))

\* n.toString().padStart(2, "0")
PadStart2(n) == IF n < 10 THEN "0" \o ToString(n) ELSE ToString(n)

DigitValue(c) ==
    CASE c = "0" -> 0 [] c = "1" -> 1 [] c = "2" -> 2 [] c = "3" -> 3 [] c = "4" -> 4
      [] c = "5" -> 5 [] c = "6" -> 6 [] c = "7" -> 7 [] c = "8" -> 8 [] c = "9" -> 9

\* Number(str) of a string of decimal digits; Number("") is 0
RECURSIVE Number(_)
Number(str) ==
    IF Len(str) = 0 THEN 0
    ELSE 10 * Number(SubSeq(str, 1, Len(str) - 1)) + DigitValue(SubSeq(str, Len(str), Len(str)))

\* index of the first ":" of str from position i on, or 0 when there is none
RECURSIVE ColonFrom(_, _)
ColonFrom(str, i) ==
    IF i > Len(str) THEN 0
    ELSE IF SubSeq(str, i, i) = ":" THEN i
    ELSE ColonFrom(str, i + 1)

\* const [hours, minutes] = str.split(":").map(Number), for a string with one ":"
SplitTime(str) ==
    LET c == ColonFrom(str, 1)
    IN  [hours |-> Number(SubSeq(str, 1, c - 1)),
         minutes |-> Number(SubSeq(str, c + 1, Len(str)))]

\* date-fns format(date, "H:mm")
FormatHmm(date) == ToString(getHours(date)) \o ":" \o PadStart2(getMinutes(date))

-----------------------------------------------------------------------------
(* EventCalendar: click-to-create, the dialogs and the keyboard shortcuts *)

CalendarViews == {"month", "week", "day", "agenda"}

NoDialog == ~isEventDialogOpen /\ ~isChoiceDialogOpen /\ ~isAISuggestionOpen

\* a handler of EventCalendar leaves the provider's state alone; the record of
\* the last operation is renewed
Observe(rec) ==
    /\ lastOp' = rec
    /\ updates' = <<>>
    /\ UNCHANGED <<activeEvent, activeId, activeView, currentTime, eventHeight,
                   isMultiDay, multiDayWidth, dragHandlePosition, eventDimensions,
                   dragging, active>>
    /\ UNCHANGED <<fnVars, hostVars>>

\* Date.prototype.setHours(h), setMinutes(mi), setSeconds(s), setMilliseconds(ms),
\* setDate(d): the other fields are kept
setHoursOnly(t, h) == setHours(t, h, getMinutes(t), getSeconds(t), getMilliseconds(t))
setMinutes(t, mi) == setHours(t, getHours(t), mi, getSeconds(t), getMilliseconds(t))
setSeconds(t, sec) == setHours(t, getHours(t), getMinutes(t), sec, getMilliseconds(t))
setMilliseconds(t, ms) == setHours(t, getHours(t), getMinutes(t), getSeconds(t), ms)
\* t.setHours(h, mi, s): the milliseconds are kept
setHoursMinSec(t, h, mi, sec) == setHours(t, h, mi, sec, getMilliseconds(t))

addHoursToDate(date, hours) == setHoursOnly(date, getHours(date) + hours)

\* the cells that are clicked and dropped on: of the first and the last day
\* shown (starts of days, as eachDayOfInterval gives them), in the first hour,
\* the first and the last ten-minute cell
ClickDays == { Dt(d, 0, 0, 0, 0) : d \in {EventDay, EventDay + MaxDropDays - 1} }
ClickHours == {BaseHour}
ClickIntervals == {0, 5}

\* currentDate of the calendar context: useState(new Date()), the moment of
\* mounting 2024-01-05 13:05:37.250, or a day picked in the sidebar
CurrentDates == { Dt(EventDay, 13, 5, 37, 250), Dt(EventDay, 0, 0, 0, 0) }

\* MonthView, DroppableCell onClick: startTime.setHours(DefaultStartHour, 0, 0)
MonthCellStart(day) == setHoursMinSec(day, DefaultStartHour, 0, 0)

\* WeekView and DayView, DroppableCell onClick: setHours(hourValue), then
\* setMinutes(tenMinInterval * 10)
TimeCellStart(date, hourValue, tenMinInterval) ==
    setMinutes(setHoursOnly(date, hourValue), tenMinInterval * 10)

\* the Date handleEventCreate leaves in startTime
RoundToTenMinutes(startTime) ==
    LET minutes == getMinutes(startTime)
        remainder == minutes % 10
    IN  IF remainder # 0
        THEN setMilliseconds(
                 setSeconds(
                     setMinutes(startTime,
                                IF remainder < 5 THEN minutes - remainder
                                ELSE minutes + (10 - remainder)),
                     0),
                 0)
        ELSE startTime

handleEventCreate(cell, startTime) ==
    /\ selectedDateTime' = RoundToTenMinutes(startTime)
    /\ isChoiceDialogOpen' = TRUE
    /\ UNCHANGED <<currentView, isEventDialogOpen, selectedEvent, isAISuggestionOpen>>
    /\ Observe([op |-> "create", cell |-> cell, startTime |-> startTime])

\* a click on a cell of the view shown; the dialogs are modal and a drag holds
\* the pointer
monthCellClick(day) ==
    /\ ~dragging /\ NoDialog /\ currentView = "month"
    /\ handleEventCreate([view |-> "month", date |-> day], MonthCellStart(day))

weekCellClick(day, hourValue, tenMinInterval) ==
    /\ ~dragging /\ NoDialog /\ currentView = "week"
    /\ handleEventCreate([view |-> "week", date |-> day],
                         TimeCellStart(day, hourValue, tenMinInterval))

dayCellClick(currentDate, hourValue, tenMinInterval) ==
    /\ ~dragging /\ NoDialog /\ currentView = "day"
    /\ handleEventCreate([view |-> "day", date |-> currentDate],
                         TimeCellStart(currentDate, hourValue, tenMinInterval))

\* ManualEvent with a fault: the provisional event lasts two hours
ManualEvent_twoHours(start) ==
    [id |-> "", title |-> "", start |-> start, end |-> addHoursToDate(start, 2),
     allDay |-> FALSE]

\* the provisional event of handleManualCreate
ManualEvent(start) ==
    [id |-> "", title |-> "", start |-> start, end |-> addHoursToDate(start, 1),
     allDay |-> FALSE]

\* the setters of handleManualCreate
ManualCreate ==
    IF selectedDateTime = Null
    THEN UNCHANGED <<selectedEvent, isChoiceDialogOpen, isEventDialogOpen>>
    ELSE /\ selectedEvent' = ManualEvent(selectedDateTime)
         /\ isChoiceDialogOpen' = FALSE
         /\ isEventDialogOpen' = TRUE

handleManualCreate ==
    /\ isChoiceDialogOpen
    /\ ManualCreate
    /\ UNCHANGED <<currentView, isAISuggestionOpen, selectedDateTime>>
    /\ Observe([op |-> "manual"])

handleAICreate ==
    /\ isChoiceDialogOpen
    /\ isChoiceDialogOpen' = FALSE
    /\ isAISuggestionOpen' = TRUE
    /\ UNCHANGED <<currentView, isEventDialogOpen, selectedEvent, selectedDateTime>>
    /\ Observe([op |-> "ai"])

handleChoiceDialogClose ==
    /\ isChoiceDialogOpen
    /\ isChoiceDialogOpen' = FALSE
    /\ selectedDateTime' = Null
    /\ UNCHANGED <<currentView, isEventDialogOpen, selectedEvent, isAISuggestionOpen>>
    /\ Observe([op |-> "choiceClose"])

handleAISuggestionClose ==
    /\ isAISuggestionOpen
    /\ isAISuggestionOpen' = FALSE
    /\ selectedDateTime' = Null
    /\ UNCHANGED <<currentView, isEventDialogOpen, selectedEvent, isChoiceDialogOpen>>
    /\ Observe([op |-> "aiClose"])

handleAIToManualCreate ==
    /\ isAISuggestionOpen
    /\ isAISuggestionOpen' = FALSE
    /\ ManualCreate
    /\ UNCHANGED <<currentView, selectedDateTime>>
    /\ Observe([op |-> "aiToManual"])

\* the event handleSuggestionSelect builds on selectedDateTime
SuggestionEvent(baseDate, suggestion, timeInfo) ==
    LET s == SplitTime(timeInfo.startTime)
        e == SplitTime(timeInfo.endTime)
        startDate == setHours(baseDate, s.hours, s.minutes, 0, 0)
        endDate0 == setHours(baseDate, e.hours, e.minutes, 0, 0)
        \* endDate.setDate(endDate.getDate() + 1)
        endDate == IF ~Before(startDate, endDate0)
                   THEN [endDate0 EXCEPT !.day = @ + 1] ELSE endDate0
    IN  [id |-> "", title |-> suggestion.title, description |-> suggestion.description,
         start |-> startDate, end |-> endDate, allDay |-> FALSE,
         location |-> suggestion.location]

handleSuggestionSelect(suggestion, timeInfo) ==
    /\ isAISuggestionOpen
    /\ IF selectedDateTime = Null
       THEN UNCHANGED <<selectedEvent, isAISuggestionOpen, isEventDialogOpen>>
       ELSE /\ selectedEvent' = SuggestionEvent(selectedDateTime, suggestion, timeInfo)
            /\ isAISuggestionOpen' = FALSE
            /\ isEventDialogOpen' = TRUE
    /\ UNCHANGED <<currentView, isChoiceDialogOpen, selectedDateTime>>
    /\ Observe([op |-> "suggestion", timeInfo |-> timeInfo])

handleEventSelect(event) ==
    /\ ~dragging /\ NoDialog
    /\ selectedEvent' = event
    /\ isEventDialogOpen' = TRUE
    /\ UNCHANGED <<currentView, isChoiceDialogOpen, isAISuggestionOpen, selectedDateTime>>
    /\ Observe([op |-> "select"])

handleNewEventClick ==
    /\ ~dragging /\ NoDialog
    /\ selectedEvent' = Null
    /\ isEventDialogOpen' = TRUE
    /\ UNCHANGED <<currentView, isChoiceDialogOpen, isAISuggestionOpen, selectedDateTime>>
    /\ Observe([op |-> "new"])

\* onEventDialogClose of CalendarDialogs
onEventDialogClose ==
    /\ isEventDialogOpen
    /\ isEventDialogOpen' = FALSE
    /\ selectedEvent' = Null
    /\ UNCHANGED <<currentView, isChoiceDialogOpen, isAISuggestionOpen, selectedDateTime>>
    /\ Observe([op |-> "dialogClose"])

-----------------------------------------------------------------------------
(* EventDialog *)

\* `${hours}:${minutes}` with both parts padded, the minutes floored to ten
formatTimeForInput(date) ==
    PadStart2(getHours(date)) \o ":" \o PadStart2((getMinutes(date) \div 10) * 10)

\* event.name || default, for a field the event may lack
FieldOr(event, name, default) == IF name \in DOMAIN event THEN event[name] ELSE default

\* the form after the effect on [event]: the event's values, or resetForm at
\* the moment `now`
FormOf(event, now) ==
    IF event # Null
    THEN [title |-> FieldOr(event, "title", ""),
          description |-> FieldOr(event, "description", ""),
          startDate |-> event.start,
          endDate |-> event.end,
          startTime |-> formatTimeForInput(event.start),
          endTime |-> formatTimeForInput(event.end),
          allDay |-> FieldOr(event, "allDay", FALSE),
          location |-> FieldOr(event, "location", ""),
          color |-> FieldOr(event, "color", "blue")]
    ELSE [title |-> "", description |-> "",
          startDate |-> now, endDate |-> now,
          startTime |-> ToString(DefaultStartHour) \o ":00",
          endTime |-> ToString(DefaultEndHour) \o ":00",
          allDay |-> FALSE, location |-> "", color |-> "blue"]

\* what the user may have made of the form when Save is clicked: a title typed,
\* an end date picked, an end time selected among timeOptions, all-day ticked
Forms(event) ==
    LET f == FormOf(event, Dt(EventDay, 13, 5, 37, 250))
    IN  { [f EXCEPT !.title = t, !.endDate = ed, !.endTime = et, !.allDay = ad] :
            t \in {f.title, " Sync "},
            ed \in {f.endDate},
            et \in {f.endTime, PadStart2(BaseHour) \o ":00"},
            ad \in {f.allDay, TRUE} }

\* the start and end handleSave composes from the form
FormStart(form) ==
    IF ~form.allDay
    THEN LET t == SplitTime(form.startTime)
         IN  setHoursMinSec(form.startDate, t.hours, t.minutes, 0)
    ELSE setHours(form.startDate, 0, 0, 0, 0)

FormEnd(form) ==
    IF ~form.allDay
    THEN LET t == SplitTime(form.endTime)
         IN  setHoursMinSec(form.endDate, t.hours, t.minutes, 0)
    ELSE setHours(form.endDate, 23, 59, 59, 999)

OutOfRange(form) ==
    LET s == SplitTime(form.startTime)
        e == SplitTime(form.endTime)
    IN  s.hours < StartHour \/ s.hours > EndHour \/ e.hours < StartHour \/ e.hours > EndHour

\* the event handleSave passes to onSave
FormEvent(event, form) ==
    [id |-> IF event = Null THEN "" ELSE FieldOr(event, "id", ""),
     title |-> Trim(form.title),
     description |-> form.description,
     start |-> FormStart(form),
     end |-> FormEnd(form),
     allDay |-> form.allDay,
     location |-> form.location,
     color |-> form.color]

\* handleSave with a fault: the check of end against start is left out
handleSave_unchecked(event, form) ==
    IF Trim(form.title) = "" THEN [error |-> "title", saved |-> <<>>]
    ELSE IF ~form.allDay /\ OutOfRange(form) THEN [error |-> "range", saved |-> <<>>]
    ELSE [error |-> "none", saved |-> << FormEvent(event, form) >>]

\* EventDialog.handleSave: the error it sets, or the event it passes to onSave
handleSave(event, form) ==
    IF Trim(form.title) = "" THEN [error |-> "title", saved |-> <<>>]
    ELSE IF ~form.allDay /\ OutOfRange(form) THEN [error |-> "range", saved |-> <<>>]
    ELSE IF Before(FormEnd(form), FormStart(form)) THEN [error |-> "order", saved |-> <<>>]
    ELSE [error |-> "none", saved |-> << FormEvent(event, form) >>]

-----------------------------------------------------------------------------
(* useEventHandlers: save and move *)

\* Math.random().toString(36): "0" for the value 0, and another value
RandomBase36 == {"0", "0.k7f3q9x2a1b"}

\* str.substring(2, 11)
Substring2To11(str) == SubSeq(str, 3, IF Len(str) < 11 THEN Len(str) ELSE 11)

\* the calls handleEventSave makes on the host's callbacks
EventSaveCalls(event, random) ==
    IF event.id # ""
    THEN << [cb |-> "onEventUpdate", event |-> event] >>
    ELSE << [cb |-> "onEventAdd", event |-> [event EXCEPT !.id = Substring2To11(random)]] >>

handleEventSave(event, random) ==
    /\ isEventDialogOpen' = FALSE
    /\ selectedEvent' = Null
    /\ UNCHANGED <<currentView, isChoiceDialogOpen, isAISuggestionOpen, selectedDateTime>>
    /\ Observe([op |-> "save", error |-> "none", event |-> event,
                calls |-> EventSaveCalls(event, random)])

\* a click on Save in the event dialog: handleSave, and through onSave
\* handleEventSave
saveClick(form, random) ==
    /\ isEventDialogOpen
    /\ LET r == handleSave(selectedEvent, form)
       IN  IF r.saved = <<>>
           THEN /\ UNCHANGED uiVars
                /\ Observe([op |-> "save", error |-> r.error,
                            event |-> [start |-> FormStart(form), end |-> FormEnd(form)],
                            calls |-> <<>>])
           ELSE handleEventSave(r.saved[1], random)

\* handleEventUpdate: a move the provider emits is passed on to onEventUpdate
handleEventUpdate(updatedEvent) == [cb |-> "onEventUpdate", event |-> updatedEvent]

\* the calls the last operation made on onEventAdd and onEventUpdate
HostCalls ==
    IF lastOp.op = "save" THEN lastOp.calls
    ELSE IF lastOp.op = "end"
    THEN [i \in 1 .. Len(lastOp.calls) |-> handleEventUpdate(lastOp.calls[i])]
    ELSE <<>>

-----------------------------------------------------------------------------
(* useKeyboardShortcuts and the header's view buttons *)

\* e.key.toLowerCase() of the keys pressed
ToLowerCase(key) ==
    CASE key = "M" -> "m" [] key = "W" -> "w" [] key = "D" -> "d" [] key = "A" -> "a"
      [] OTHER -> key

Keys == {"m", "w", "d", "a", "M", "x"}
\* e.target: the page, or an element that takes text
KeyTargets == {"body", "input", "textarea", "contentEditable"}

\* handleKeyDown with a fault: the AI-suggestion dialog does not suppress
handleKeyDown_aiIgnored(key, target) ==
    /\ currentView' =
          IF isEventDialogOpen \/ isChoiceDialogOpen
             \/ target \in {"input", "textarea", "contentEditable"}
          THEN currentView
          ELSE CASE ToLowerCase(key) = "m" -> "month"
                 [] ToLowerCase(key) = "w" -> "week"
                 [] ToLowerCase(key) = "d" -> "day"
                 [] ToLowerCase(key) = "a" -> "agenda"
                 [] OTHER -> currentView
    /\ UNCHANGED <<isEventDialogOpen, selectedEvent, isChoiceDialogOpen,
                   isAISuggestionOpen, selectedDateTime>>
    /\ lastOp' = [op |-> "key", shortcut |-> ToLowerCase(key) \in {"m", "w", "d", "a"}]
    /\ UNCHANGED <<activeEvent, activeId, activeView, currentTime, eventHeight,
                   isMultiDay, multiDayWidth, dragHandlePosition, eventDimensions,
                   dragging, active, updates>>
    /\ UNCHANGED <<fnVars, hostVars>>

\* the keydown listener of the window; it runs during a drag as well
handleKeyDown(key, target) ==
    /\ currentView' =
          IF isEventDialogOpen \/ isChoiceDialogOpen \/ isAISuggestionOpen
             \/ target \in {"input", "textarea", "contentEditable"}
          THEN currentView
          ELSE CASE ToLowerCase(key) = "m" -> "month"
                 [] ToLowerCase(key) = "w" -> "week"
                 [] ToLowerCase(key) = "d" -> "day"
                 [] ToLowerCase(key) = "a" -> "agenda"
                 [] OTHER -> currentView
    /\ UNCHANGED <<isEventDialogOpen, selectedEvent, isChoiceDialogOpen,
                   isAISuggestionOpen, selectedDateTime>>
    /\ lastOp' = [op |-> "key", shortcut |-> ToLowerCase(key) \in {"m", "w", "d", "a"}]
    /\ UNCHANGED <<activeEvent, activeId, activeView, currentTime, eventHeight,
                   isMultiDay, multiDayWidth, dragHandlePosition, eventDimensions,
                   dragging, active, updates>>
    /\ UNCHANGED <<fnVars, hostVars>>

\* onViewChange of CalendarHeader
onViewChange(v) ==
    /\ ~dragging /\ NoDialog
    /\ currentView' = v
    /\ UNCHANGED <<isEventDialogOpen, selectedEvent, isChoiceDialogOpen,
                   isAISuggestionOpen, selectedDateTime>>
    /\ Observe([op |-> "view"])

-----------------------------------------------------------------------------
(* EventCalendar with its views under the provider *)

\* the events prop: the meeting and the meeting with seconds
CalendarEvents == { e \in SampleEvents : e.id \in {"meet", "late"} }

\* the draggables of the view shown, before their elements are measured
ViewActives(v) ==
    { [id |-> DragId(e, v), data |-> DragData(e, v, FALSE)] : e \in CalendarEvents }

\* the data of the droppable cells of the view shown: month cells carry a
\* date, week and day cells a date and the hour fraction of a ten-minute cell
ViewCells(v) ==
    IF v = "month" THEN { [date |-> d, time |-> Undefined] : d \in ClickDays }
    ELSE LET times == { Num(h * TimeDen + k * 10 * TicksPerMinute) :
                          h \in ClickHours, k \in ClickIntervals }
         IN  IF v = "week" THEN { [date |-> d, time |-> t] : d \in ClickDays, t \in times }
             ELSE IF v = "day" THEN { [date |-> d, time |-> t] : d \in CurrentDates, t \in times }
             ELSE {}

ViewOvers(v) == {Null} \cup { [data |-> c] : c \in ViewCells(v) }

\* suggestions of the AI dialog and the times of its two selects: the time
\* clicked and one hour later, or a half hour chosen
Suggestions == { [title |-> "Lunch", description |-> "with the team", location |-> "cafe"] }
HalfHours == { PadStart2(BaseHour) \o ":30" }
TimeInfos ==
    IF selectedDateTime = Null THEN {}
    ELSE { [startTime |-> st, endTime |-> et] :
             st \in {FormatHmm(selectedDateTime)} \cup HalfHours,
             et \in {FormatHmm(addHoursToDate(selectedDateTime, 1))} \cup HalfHours }

UiNext ==
    \/ \E day \in ClickDays : monthCellClick(day)
    \/ \E day \in ClickDays : \E h \in ClickHours : \E k \in ClickIntervals :
          weekCellClick(day, h, k)
    \/ \E cd \in CurrentDates : \E h \in ClickHours : \E k \in ClickIntervals :
          dayCellClick(cd, h, k)
    \/ handleManualCreate
    \/ handleAICreate
    \/ handleChoiceDialogClose
    \/ handleAISuggestionClose
    \/ handleAIToManualCreate
    \/ \E sg \in Suggestions : \E ti \in TimeInfos : handleSuggestionSelect(sg, ti)
    \/ \E e \in CalendarEvents : handleEventSelect(e)
    \/ handleNewEventClick
    \/ onEventDialogClose
    \/ \E form \in Forms(selectedEvent) : \E random \in RandomBase36 : saveClick(form, random)
    \* keys are pressed between the gestures of the pointer
    \/ \E key \in Keys : \E target \in KeyTargets : ~dragging /\ handleKeyDown(key, target)
    \/ \E v \in CalendarViews : onViewChange(v)
    \/ \E a \in ViewActives(currentView) :
          NoDialog /\ currentView \in Views /\ handleDragStart(a) /\ UNCHANGED <<fnVars, uiVars, hostVars>>
    \/ \E over \in ViewOvers(currentView) : handleDragOver(over) /\ UNCHANGED <<fnVars, uiVars, hostVars>>
    \/ \E over \in ViewOvers(currentView) :
          dragging /\ handleDragEnd(active.data, over) /\ UNCHANGED <<fnVars, uiVars, hostVars>>
    \/ dragCancel /\ UNCHANGED <<fnVars, uiVars, hostVars>>

SpecUi == InitDnd /\ [][UiNext]_vars

-----------------------------------------------------------------------------
(* Properties of EventCalendar, checked under SpecUi *)

MonthCellClicked == lastOp.op = "create" /\ lastOp.cell.view = "month"

\* C16 as stated: clicking an empty month cell for a date opens the
\* event-creation dialog holding a provisional event whose start is that date
\* at 09:00 (DefaultStartHour) and whose end is 10:00 on the same date, with
\* empty id.
C16_MonthClickOpensEventDialog ==
    MonthCellClicked =>
        /\ isEventDialogOpen
        /\ selectedEvent # Null
        /\ selectedEvent.id = ""
        /\ selectedEvent.start = Dt(lastOp.cell.date.day, DefaultStartHour, 0, 0, 0)
        /\ selectedEvent.end = Dt(lastOp.cell.date.day, DefaultEndHour, 0, 0, 0)

\* C16, amended: clicking an empty month cell for a date opens the
\* creation-choice dialog, not yet the event dialog, and keeps that date at
\* 09:00:00.000 as the selected time; choosing manual creation there closes the
\* choice dialog and opens the event dialog holding a provisional event with
\* empty id and title, not all-day, starting at the selected time and ending
\* one hour later: for a month cell, 09:00 to 10:00 on the cell's date.
C16_MonthClickThenManualChoice ==
    /\ MonthCellClicked =>
          /\ isChoiceDialogOpen /\ ~isEventDialogOpen /\ ~isAISuggestionOpen
          /\ selectedDateTime = Dt(lastOp.cell.date.day, DefaultStartHour, 0, 0, 0)
    /\ (lastOp.op = "manual" /\ currentView = "month") =>
          /\ isEventDialogOpen /\ ~isChoiceDialogOpen /\ ~isAISuggestionOpen
          /\ selectedDateTime \in { Dt(d.day, DefaultStartHour, 0, 0, 0) : d \in ClickDays }
          /\ selectedEvent =
                [id |-> "", title |-> "", start |-> selectedDateTime,
                 end |-> Dt(selectedDateTime.day, DefaultEndHour, 0, 0, 0),
                 allDay |-> FALSE]

\* the choice dialog of a click on the month cell of the last day shown has
\* been answered with manual creation
C16_Witness ==
    /\ lastOp.op = "manual" /\ currentView = "month"
    /\ isEventDialogOpen
    /\ selectedDateTime = Dt(EventDay + MaxDropDays - 1, DefaultStartHour, 0, 0, 0)

\* the clicked time rounded to the nearest ten minutes, a remainder of five
\* or more rounding up and carrying, at second 0 and millisecond 0
NearestTenMinutes(t) == setHours(t, getHours(t), ((getMinutes(t) + 5) \div 10) * 10, 0, 0)

\* C17: for every clicked time, click-to-create (a day, week or month cell click
\* followed by handleEventCreate) yields a start time whose minutes are a
\* multiple of 10, obtained by rounding to the nearest 10 with a remainder of 5
\* or more rounding up, and whose seconds and milliseconds are 0.
C17_ClickStartOnTenMinuteGrid ==
    lastOp.op = "create" =>
        /\ getMinutes(selectedDateTime) % 10 = 0
        /\ getSeconds(selectedDateTime) = 0
        /\ getMilliseconds(selectedDateTime) = 0
        /\ selectedDateTime = NearestTenMinutes(lastOp.startTime)

TextTargets == {"input", "textarea", "contentEditable"}

ViewOfKey(key) ==
    CASE key \in {"m", "M"} -> "month"
      [] key \in {"w", "W"} -> "week"
      [] key \in {"d", "D"} -> "day"
      [] key \in {"a", "A"} -> "agenda"

EventSaved == lastOp.op = "save" /\ lastOp.error = "none"

\* C19: handleEventSave with a non-empty id invokes onEventUpdate exactly once
\* and never onEventAdd; with an empty id it invokes onEventAdd exactly once
\* with a non-empty generated id and never onEventUpdate; in both cases the
\* event dialog is closed and the selected event is cleared afterwards.
C19_SaveCallsOneCallback ==
    EventSaved =>
        /\ Len(lastOp.calls) = 1
        /\ lastOp.event.id # "" =>
              lastOp.calls[1] = [cb |-> "onEventUpdate", event |-> lastOp.event]
        /\ lastOp.event.id = "" =>
              /\ lastOp.calls[1].cb = "onEventAdd"
              /\ lastOp.calls[1].event.id # ""
        /\ ~isEventDialogOpen
        /\ selectedEvent = Null

\* C20: every event passed to onEventAdd or onEventUpdate, whether from the
\* event dialog's save, from an AI suggestion selected and saved, or from a drag
\* commit of an event that itself had end >= start, satisfies end >= start; an
\* end before start is rejected with an error and no callback.
C20_EmittedEndNotBeforeStart ==
    /\ \A i \in 1 .. Len(HostCalls) :
          ~Before(HostCalls[i].event.end, HostCalls[i].event.start)
    /\ (lastOp.op = "save" /\ Before(lastOp.event.end, lastOp.event.start)) =>
          /\ lastOp.error \in {"title", "range", "order"}
          /\ lastOp.calls = <<>>

\* a save whose end lies before its start has been rejected for that reason
C20_Witness ==
    /\ lastOp.op = "save"
    /\ lastOp.error = "order"
    /\ Before(lastOp.event.end, lastOp.event.start)
    /\ HostCalls = <<>>

-----------------------------------------------------------------------------
(* Properties of useEventVisibility, checked under SpecFn *)

Counted == fnOut # Null /\ fnIn.fn = "getVisibleEventCount"

\* C11: the visible count never exceeds the number of events, and a container
\* measured at h2 px shows at least as many events as the same container
\* measured at any h1 <= h2, for every h1 >= 0.
C11_CountBoundedAndMonotone ==
    Counted =>
        /\ fnOut.value <= fnIn.totalEvents
        /\ \A k \in 1 .. Len(fnOut.shorter) :
              /\ fnOut.shorter[k] <= fnIn.totalEvents
              /\ fnOut.shorter[k] <= fnOut.value

\* the reference of the specification: the container height is unknown only
\* before the first measurement
VisibleCountReference(height, rowHeight, gap, total) ==
    IF height = Null \/ rowHeight + gap <= 0 THEN total
    ELSE LET maxFit == height.num \div (rowHeight + gap) IN
         IF total <= maxFit THEN total
         ELSE IF maxFit - 1 > 0 THEN maxFit - 1 ELSE 0

\* C12: getVisibleEventCount(total) is total when the height is unmeasured or
\* rowHeight + gap <= 0, and otherwise total when total <= maxFit and
\* max(maxFit - 1, 0) when total > maxFit, with maxFit = floor(height / slot).
C12_CountEqualsReference ==
    Counted =>
        fnOut.value = VisibleCountReference(fnIn.contentHeight, fnIn.eventHeight,
                                            fnIn.eventGap, fnIn.totalEvents)

-----------------------------------------------------------------------------
(* /api/ai-suggestions: the rate limit of the route (part_000) *)

windowMs == 60 * 1000
maxRequests == 5

\* the instants at which requests arrive: the start of a window and the
\* millisecond after it, the window's last millisecond, and the first two
\* milliseconds past it
CallTimes == {0, 1, windowMs - 1, windowMs, windowMs + 1}

\* rateLimitStore.has(ip), rateLimitStore.get(ip) after the absent key was set
\* to [], and rateLimitStore.set(ip, entry)
MapHas(map, key) == key \in DOMAIN map
MapGetOrEmpty(map, key) == IF MapHas(map, key) THEN map[key] ELSE <<>>
MapSet(map, key, entry) ==
    [k \in DOMAIN map \cup {key} |-> IF k = key THEN entry ELSE map[k]]

\* requests.filter(time => now - time < windowMs)
validRequests(requests, t) == SelectSeq(requests, LAMBDA time : t - time < windowMs)

\* the last n entries of a sequence
LastEntries(s, n) == IF Len(s) <= n THEN s ELSE SubSeq(s, Len(s) - n + 1, Len(s))

\* what the call does once its answer is known: the Map entry it leaves, and
\* the record of the answer
AnswerRateLimit(ip, entry, value) ==
    /\ rateLimitStore' = MapSet(rateLimitStore, ip, entry)
    /\ rateAnswer' = [ip |-> ip, time |-> dateNow, value |-> value]
    /\ allowedTimes' = IF value
                         THEN [allowedTimes EXCEPT
                                 ![ip] = LastEntries(Append(@, dateNow), maxRequests + 1)]
                         ELSE allowedTimes
    /\ UNCHANGED dateNow

\* checkRateLimit with a fault: the comparison with maxRequests is strict
checkRateLimit_strict(ip) ==
    LET requests == MapGetOrEmpty(rateLimitStore, ip)
        valid == validRequests(requests, dateNow)
    IN  IF Len(valid) > maxRequests
        THEN AnswerRateLimit(ip, requests, FALSE)
        ELSE AnswerRateLimit(ip, Append(valid, dateNow), TRUE)

\* checkRateLimit(ip): an absent key is set to []; the times inside the window
\* are kept; with maxRequests of them the answer is false and the Map entry is
\* left as it was, else the time of the call is appended and stored
checkRateLimit(ip) ==
    LET requests == MapGetOrEmpty(rateLimitStore, ip)
        valid == validRequests(requests, dateNow)
    IN  IF Len(valid) >= maxRequests
        THEN AnswerRateLimit(ip, requests, FALSE)
        ELSE AnswerRateLimit(ip, Append(valid, dateNow), TRUE)

\* POST: the rate limit is the first thing checked, on the key of the request
POST(ip) == checkRateLimit(ip) /\ UNCHANGED <<dndVars, fnVars, uiVars, pageVars>>

\* time passes between two requests
clockAdvance ==
    /\ \E t \in CallTimes : t > dateNow /\ dateNow' = t
    /\ UNCHANGED <<rateLimitStore, allowedTimes, rateAnswer>>
    /\ UNCHANGED <<dndVars, fnVars, uiVars, pageVars>>

ApiNext ==
    \/ \E ip \in ClientIps : POST(ip)
    \/ clockAdvance

SpecApi == InitDnd /\ [][ApiNext]_vars

\* the calls a key may still make at the current time
Allowance(ip) ==
    maxRequests - Len(validRequests(MapGetOrEmpty(rateLimitStore, ip), dateNow))

\* C23: for one ip, any maxRequests + 1 calls answered true span at least
\* windowMs, so that no 60-second window holds more than five of them; and the
\* allowance of an ip goes down only by a call of that same ip answered true
C23_FivePerWindowPerIp ==
    /\ [](\A ip \in ClientIps :
            Len(allowedTimes[ip]) = maxRequests + 1 =>
                allowedTimes[ip][maxRequests + 1] - allowedTimes[ip][1] >= windowMs)
    /\ [][\A ip \in ClientIps :
            Allowance(ip)' < Allowance(ip) =>
                /\ rateAnswer'.ip = ip
                /\ rateAnswer'.value
                /\ Allowance(ip)' = Allowance(ip) - 1]_vars

\* C23 witness: a sixth call inside the window is answered false while the
\* other key, which has made calls of its own, still has calls left
C23_Witness ==
    /\ rateAnswer # Null
    /\ ~rateAnswer.value
    /\ Len(validRequests(allowedTimes[rateAnswer.ip], dateNow)) = maxRequests
    /\ \E other \in ClientIps \ {rateAnswer.ip} :
          MapHas(rateLimitStore, other) /\ Allowance(other) > 0

-----------------------------------------------------------------------------
(* Home: the event list kept by useLocalStorage (part_005, part_021) *)

\* str.startsWith(prefix)
StartsWith(str, prefix) ==
    Len(str) >= Len(prefix) /\ SubSeq(str, 1, Len(prefix)) = prefix

\* JSON.stringify and JSON.parse of the list: the text holds the entries with
\* their id and title, in order
JSONstringify(value) == [text |-> value]
JSONparse(item) == item.text

\* the events the calendar hands to the callbacks
StoredEvent(id, title) == [id |-> id, title |-> title]
AddedEvents == { StoredEvent(id, "a") : id \in {"e1", "e2"} }
UpdatedEvents == { StoredEvent(id, "b") : id \in {"e1", "e2"} }
DeletedIds == {"e1", "e2", "holiday-2024-01-01"}

\* the updater functions given to setEvents
AddUpdater(event, prev) == Append(prev, event)
UpdateUpdater(updatedEvent, prev) ==
    [i \in 1 .. Len(prev) |-> IF prev[i].id = updatedEvent.id THEN updatedEvent ELSE prev[i]]
DeleteUpdater(eventId, prev) == SelectSeq(prev, LAMBDA ev : ev.id # eventId)

\* setValue(updater): the updater is applied to storedValue of the render that
\* created this setValue; the result goes to setStoredValue and to localStorage.
\* `next` is updater(storedValue), `requested` the list the change asks for
setValue(next, requested) ==
    /\ queuedValue' = [value |-> next]
    /\ localStorageItem' = JSONstringify(next)
    /\ requestedEvents' = requested
    /\ turnCalls' = turnCalls + 1
    /\ UNCHANGED storedValue

Home_handleEventAdd(event) ==
    /\ turnCalls < MaxTurnCalls
    /\ Len(storedValue) < MaxStored /\ Len(requestedEvents) < MaxStored
    /\ setValue(AddUpdater(event, storedValue), AddUpdater(event, requestedEvents))

Home_handleEventUpdate(updatedEvent) ==
    /\ turnCalls < MaxTurnCalls
    /\ setValue(UpdateUpdater(updatedEvent, storedValue),
                UpdateUpdater(updatedEvent, requestedEvents))

\* a holiday's id is refused with a warning, before setEvents
Home_handleEventDelete(eventId) ==
    /\ turnCalls < MaxTurnCalls
    /\ IF StartsWith(eventId, "holiday-")
       THEN /\ turnCalls' = turnCalls + 1
            /\ UNCHANGED <<storedValue, queuedValue, localStorageItem, requestedEvents>>
       ELSE setValue(DeleteUpdater(eventId, storedValue),
                     DeleteUpdater(eventId, requestedEvents))

\* the turn ends and React renders: useState returns the last value given to
\* setStoredValue, and a new setValue closes over it
render ==
    /\ turnCalls > 0
    /\ storedValue' = IF queuedValue = Null THEN storedValue ELSE queuedValue.value
    /\ queuedValue' = Null
    /\ turnCalls' = 0
    /\ requestedEvents' = storedValue'
    /\ UNCHANGED localStorageItem

PageNext ==
    \/ \E event \in AddedEvents :
          Home_handleEventAdd(event) /\ UNCHANGED <<dndVars, fnVars, uiVars, apiVars>>
    \/ \E event \in UpdatedEvents :
          Home_handleEventUpdate(event) /\ UNCHANGED <<dndVars, fnVars, uiVars, apiVars>>
    \/ \E eventId \in DeletedIds :
          Home_handleEventDelete(eventId) /\ UNCHANGED <<dndVars, fnVars, uiVars, apiVars>>
    \/ render /\ UNCHANGED <<dndVars, fnVars, uiVars, apiVars>>

SpecPage == InitDnd /\ [][PageNext]_vars

\* C30: whatever callbacks were invoked since the last render, the list handed
\* to React for the next render and the list written to localStorage hold the
\* change of every one of them
C30_NoLostUpdate ==
    /\ queuedValue # Null => queuedValue.value = requestedEvents
    /\ localStorageItem # Null => JSONparse(localStorageItem) = requestedEvents

====
